---- MODULE Spec2Model ----
(***************************************************************************)
(* The probe-driven harvesting engine of methodical_sample_summary.py:     *)
(* harvest() with its backoff wrapper, time-window test, pacing, text      *)
(* normalisation and per-subreddit Counters.  Text is a sequence of        *)
(* one-character strings, a Counter is the sequence of its <<key, count>>  *)
(* pairs in insertion order, and an optional value is <<>> (None, or an    *)
(* absent attribute) or <<v>>.                                             *)
(***************************************************************************)
EXTENDS Integers, Sequences, FiniteSets, TLC

\* ------------------------------------------------------------------ text

LowerLetters == <<"a","b","c","d","e","f","g","h","i","j","k","l","m",
                  "n","o","p","q","r","s","t","u","v","w","x","y","z">>

UpperLetters == <<"A","B","C","D","E","F","G","H","I","J","K","L","M",
                  "N","O","P","Q","R","S","T","U","V","W","X","Y","Z">>

Digits == {"0","1","2","3","4","5","6","7","8","9"}

\* the whitespace characters that have no escape in a string here, written as the
\* characters themselves: vertical tab (0x0b) and the separators 0x1c .. 0x1f
VerticalTab == ""
FileSeparator == ""
GroupSeparator == ""
RecordSeparator == ""
UnitSeparator == ""

\* \s of the re module on a str pattern, and the characters str.strip() strips,
\* among the ASCII characters: 0x09 .. 0x0d, 0x1c .. 0x1f and the space
IsSpace(c) ==
    c \in {" ", "\t", "\n", VerticalTab, "\f", "\r",
           FileSeparator, GroupSeparator, RecordSeparator, UnitSeparator}

\* one character of WORD_RE = [A-Za-z0-9']+
IsWordChar(c) ==
    \/ \E i \in 1..26 : c = LowerLetters[i] \/ c = UpperLetters[i]
    \/ c \in Digits
    \/ c = "'"

\* str.lower() on one ASCII character
LowerChar(c) ==
    IF \E i \in 1..26 : c = UpperLetters[i]
    THEN LowerLetters[CHOOSE i \in 1..26 : c = UpperLetters[i]]
    ELSE c

\* s[i..] starts with the characters of pre
StartsAt(s, i, pre) ==
    /\ i + Len(pre) - 1 <= Len(s)
    /\ \A k \in 1..Len(pre) : s[i + k - 1] = pre[k]

\* the index after the maximal run of non-space characters starting at i (\S+)
RECURSIVE EndOfNonSpace(_, _)
EndOfNonSpace(s, i) ==
    IF i > Len(s) \/ IsSpace(s[i]) THEN i ELSE EndOfNonSpace(s, i + 1)

\* does http\S+|www\.\S+ match at i: the prefix and at least one non-space after it
UrlAt(s, i) ==
    /\ \/ StartsAt(s, i, <<"h","t","t","p">>)
       \/ StartsAt(s, i, <<"w","w","w",".">>)
    /\ i + 4 <= Len(s)
    /\ ~IsSpace(s[i + 4])

\* re.sub(r"http\S+|www\.\S+", " ", s): leftmost non-overlapping matches
RECURSIVE SubUrls(_, _)
SubUrls(s, i) ==
    IF i > Len(s) THEN <<>>
    ELSE IF UrlAt(s, i) THEN <<" ">> \o SubUrls(s, EndOfNonSpace(s, i + 4))
    ELSE <<s[i]>> \o SubUrls(s, i + 1)

\* re.sub(r"[-_/]", " ", s)
SubSeparators(s) ==
    [i \in 1..Len(s) |-> IF s[i] \in {"-", "_", "/"} THEN " " ELSE s[i]]

\* re.sub(r"\s+", " ", s): every maximal run of whitespace becomes one space
RECURSIVE CollapseSpaces(_, _)
CollapseSpaces(s, i) ==
    IF i > Len(s) THEN <<>>
    ELSE IF IsSpace(s[i])
         THEN IF i > 1 /\ IsSpace(s[i - 1])
              THEN CollapseSpaces(s, i + 1)
              ELSE <<" ">> \o CollapseSpaces(s, i + 1)
         ELSE <<s[i]>> \o CollapseSpaces(s, i + 1)

\* str.strip()
RECURSIVE Strip(_)
Strip(s) ==
    IF s = <<>> THEN s
    ELSE IF IsSpace(s[1]) THEN Strip(Tail(s))
    ELSE IF IsSpace(s[Len(s)]) THEN Strip(SubSeq(s, 1, Len(s) - 1))
    ELSE s

clean_text(s) ==
    IF s = <<>> THEN <<>>
    ELSE Strip(CollapseSpaces(SubSeparators(SubUrls(s, 1)), 1))

\* the index after the maximal run of word characters starting at i
RECURSIVE EndOfWord(_, _)
EndOfWord(s, i) ==
    IF i > Len(s) \/ ~IsWordChar(s[i]) THEN i ELSE EndOfWord(s, i + 1)

\* WORD_RE.findall(s) from index i on
RECURSIVE FindWords(_, _)
FindWords(s, i) ==
    IF i > Len(s) THEN <<>>
    ELSE IF IsWordChar(s[i])
         THEN <<SubSeq(s, i, EndOfWord(s, i) - 1)>> \o FindWords(s, EndOfWord(s, i))
         ELSE FindWords(s, i + 1)

tokenize(s) ==
    FindWords([i \in 1..Len(s) |-> LowerChar(s[i])], 1)

STOPWORDS == {
    <<"a">>, <<"a","n">>, <<"a","n","d">>, <<"a","r","e">>, <<"a","s">>, <<"a","t">>,
    <<"b","e">>, <<"b","e","e","n">>, <<"b","u","t">>, <<"b","y">>, <<"c","a","n">>,
    <<"d","o">>, <<"f","o","r">>, <<"f","r","o","m">>, <<"h","a","d">>, <<"h","a","s">>,
    <<"h","a","v","e">>, <<"h","e">>, <<"h","e","r">>, <<"h","e","r","e">>,
    <<"h","e","r","s">>, <<"h","i","m">>, <<"h","i","s">>, <<"h","o","w">>, <<"i">>,
    <<"i","f">>, <<"i","n">>, <<"i","n","t","o">>, <<"i","s">>, <<"i","t">>, <<"i","t","s">>,
    <<"j","u","s","t">>, <<"m","e">>, <<"m","i","n","e">>, <<"m","o","r","e">>,
    <<"m","o","s","t">>, <<"m","y">>, <<"n","o">>, <<"n","o","t">>, <<"n","o","w">>,
    <<"o","f">>, <<"o","n">>, <<"o","n","e">>, <<"o","r">>, <<"o","u","r">>,
    <<"o","u","r","s">>, <<"o","u","t">>, <<"s","o">>, <<"t","h","a","n">>,
    <<"t","h","a","t">>, <<"t","h","e">>, <<"t","h","e","i","r">>, <<"t","h","e","i","r","s">>,
    <<"t","h","e","m">>, <<"t","h","e","r","e">>, <<"t","h","e","s","e">>, <<"t","h","e","y">>,
    <<"t","h","i","s">>, <<"t","h","o","s","e">>, <<"t","o">>, <<"t","o","o">>, <<"u","p">>,
    <<"v","e","r","y">>, <<"w","a","s">>, <<"w","e">>, <<"w","e","r","e">>,
    <<"w","h","a","t">>, <<"w","h","e","n">>, <<"w","h","e","r","e">>, <<"w","h","i","c","h">>,
    <<"w","h","o">>, <<"w","h","y">>, <<"w","i","l","l">>, <<"w","i","t","h">>,
    <<"y","o","u">>, <<"y","o","u","r">>, <<"y","o","u","r","s">> }

DOMAIN_STOP == {}

\* str.isdigit() on ASCII text
IsDigitStr(tok) == tok # <<>> /\ \A i \in 1..Len(tok) : tok[i] \in Digits

valid_unigram(tok) ==
    IF tok \in STOPWORDS \/ tok \in DOMAIN_STOP THEN FALSE
    ELSE IF Len(tok) < 3 THEN FALSE
    ELSE IF IsDigitStr(tok) THEN FALSE
    ELSE TRUE

\* valid_bigram without the test of the lengths
valid_bigram_any_length(t1, t2) ==
    IF t1 \in STOPWORDS \/ t2 \in STOPWORDS THEN FALSE
    ELSE IF t1 \in DOMAIN_STOP \/ t2 \in DOMAIN_STOP THEN FALSE
    ELSE TRUE

valid_bigram(t1, t2) ==
    IF t1 \in STOPWORDS \/ t2 \in STOPWORDS THEN FALSE
    ELSE IF t1 \in DOMAIN_STOP \/ t2 \in DOMAIN_STOP THEN FALSE
    ELSE IF Len(t1) < 2 \/ Len(t2) < 2 THEN FALSE
    ELSE TRUE

\* bigrams over range(len(tokens) - 2)
bigrams_short(tokens) ==
    [i \in 1..(IF Len(tokens) < 2 THEN 0 ELSE Len(tokens) - 2) |->
        <<tokens[i], tokens[i + 1]>>]

\* the pairs (tokens[i], tokens[i + 1]) for i in range(len(tokens) - 1)
bigrams(tokens) ==
    [i \in 1..(IF Len(tokens) = 0 THEN 0 ELSE Len(tokens) - 1) |->
        <<tokens[i], tokens[i + 1]>>]

\* ------------------------------------------------------------- Counter

\* CounterAdd that starts the Counter afresh from the key
CounterAddFresh(c, key) == << <<key, 1>> >>

\* Counter.update([key]): an existing key is incremented in place, a new key is
\* appended with count 1 (dict insertion order)
CounterAdd(c, key) ==
    IF \E i \in 1..Len(c) : c[i][1] = key
    THEN [i \in 1..Len(c) |-> IF c[i][1] = key THEN <<key, c[i][2] + 1>> ELSE c[i]]
    ELSE Append(c, <<key, 1>>)

\* Counter.update(keys), keys in order
RECURSIVE CounterUpdate(_, _)
CounterUpdate(c, keys) ==
    IF keys = <<>> THEN c
    ELSE CounterUpdate(CounterAdd(c, Head(keys)), Tail(keys))

\* [t for t in toks if valid_unigram(t)]
RECURSIVE UnigramKeys(_)
UnigramKeys(toks) ==
    IF toks = <<>> THEN <<>>
    ELSE IF valid_unigram(Head(toks))
         THEN <<Head(toks)>> \o UnigramKeys(Tail(toks))
         ELSE UnigramKeys(Tail(toks))

\* the keys ("%s %s" % (t1, t2),) of the valid bigrams of pairs, in order: each key
\* is the 1-tuple holding the phrase
RECURSIVE BigramKeys(_)
BigramKeys(pairs) ==
    IF pairs = <<>> THEN <<>>
    ELSE IF valid_bigram(Head(pairs)[1], Head(pairs)[2])
         THEN << <<Head(pairs)[1] \o <<" ">> \o Head(pairs)[2]>> >>
              \o BigramKeys(Tail(pairs))
         ELSE BigramKeys(Tail(pairs))

\* ---------------------------------------------------------- time window

\* days from 1970-01-01 to the civil date y-m-d (proleptic Gregorian)
DaysFromCivil(y, m, d) ==
    LET yy  == IF m <= 2 THEN y - 1 ELSE y
        era == yy \div 400
        yoe == yy - era * 400
        mp  == (m + 9) % 12
        doy == (153 * mp + 2) \div 5 + d - 1
        doe == yoe * 365 + yoe \div 4 - yoe \div 100 + doy
    IN  era * 146097 + doe - 719468

\* iso is <<>> (None or "") or the fields <<Y, M, D, h, m, s>> of "%Y-%m-%dT%H:%M:%S"
to_epoch_utc(iso) ==
    IF iso = <<>> THEN <<>>
    ELSE <<DaysFromCivil(iso[1], iso[2], iso[3]) * 86400
           + iso[4] * 3600 + iso[5] * 60 + iso[6]>>

\* int(getattr(submission, "created_utc", 0)) or 0, on whole seconds
Created(attr) == IF attr = <<>> THEN 0 ELSE attr[1]

\* Classify without the test created == 0
ClassifyZeroCompared(created, earliest, latest) ==
    IF created > latest[1] THEN "TOO_NEW"
    ELSE IF earliest # <<>> /\ created < earliest[1] THEN "TOO_OLD"
    ELSE "IN_WINDOW"

\* Classify with the latest bound exclusive
ClassifyExclusiveLatest(created, earliest, latest) ==
    IF created = 0 THEN "UNKNOWN"
    ELSE IF created >= latest[1] THEN "TOO_NEW"
    ELSE IF earliest # <<>> /\ created < earliest[1] THEN "TOO_OLD"
    ELSE "IN_WINDOW"

\* the window test of harvest on created, with the effect of each branch
Classify(created, earliest, latest) ==
    IF created = 0 THEN "UNKNOWN"
    ELSE IF created > latest[1] THEN "TOO_NEW"
    ELSE IF earliest # <<>> /\ created < earliest[1] THEN "TOO_OLD"
    ELSE "IN_WINDOW"

\* ----------------------------------------------------------- the inputs

Subreddits == <<"VeteransBenefits", "Veterans">>

Probes == <<"va", "claim">>

\* the submissions the remote service can return
Posts == <<
    [created_utc |-> <<>>, title |-> <<"V","A"," ","f","o","r","m">>,
     selftext |-> <<>>],
    [created_utc |-> <<1>>, title |-> <<"T","h","e"," ","c","l","a","i","m">>,
     selftext |-> <<"d","e","n","i","e","d"," ","2","1","-","5","2","6">>],
    [created_utc |-> <<4>>, title |-> <<"V","A"," ","f","o","r","m"," ","9">>,
     selftext |-> <<"v","a"," ","i","s">>],
    [created_utc |-> <<5>>, title |-> <<"V","A"," ","f","o","r","m">>,
     selftext |-> <<>>] >>

\* the comment bodies the remote service can return
Bodies == << <<"c","l","a","i","m"," ","d","e","n","i","e","d">> >>

\* tokenize(clean_text(" ".join([title, selftext]))) of each submission
PostToks ==
    [p \in 1..Len(Posts) |->
        tokenize(clean_text(Posts[p].title \o <<" ">> \o Posts[p].selftext))]

\* tokenize(clean_text(body)) of each comment body
BodyToks == [b \in 1..Len(Bodies) |-> tokenize(clean_text(Bodies[b]))]

EarliestIsoChoices == {<<>>, <<1970, 1, 1, 0, 0, 1>>, <<1970, 1, 1, 0, 0, 2>>}

LatestIso == <<1970, 1, 1, 0, 0, 4>>

\* the readings of time.time()
ClockValues == {0, 60, 61}

TimeBudgetChoices == {1}

SleepEveryChoices == {0, 2}

MaxPerProbeChoices == {0, 1, 2}

MaxCommentsChoices == {0, 1, 2}

\* longest comment list a submission returns
MaxCommentList == 3

\* submissions the remote service yields in one run, over all result streams
MaxItems == 3

\* a comment list: each entry a body, or 0 for a comment whose body cannot be read
RECURSIVE SeqsUpTo(_, _)
SeqsUpTo(S, n) ==
    IF n = 0 THEN {<<>>}
    ELSE SeqsUpTo(S, n - 1)
         \cup {Append(q, x) : q \in {r \in SeqsUpTo(S, n - 1) : Len(r) = n - 1}, x \in S}

CommentLists == SeqsUpTo(0..Len(Bodies), MaxCommentList)

\* ------------------------------------------------------------- harvest

VARIABLES
    earliest_epoch,     \* to_epoch_utc(earliest_iso)
    latest_epoch,       \* to_epoch_utc(latest_iso)
    time_budget_min,
    max_per_probe,
    include_comments,
    max_comments,
    sleep_every,
    uni_per_sub,        \* subreddit -> Counter of unigrams; the defaultdict reads
                        \* an absent subreddit as the empty Counter
    bi_per_sub,         \* subreddit -> Counter of bigram keys
    started,            \* time.time() at the start of the run
    requests_made,
    si,                 \* index in Subreddits of sub
    pi,                 \* index in Probes of probe
    taken,
    cur,                \* index in Posts of submission, 0 before the first
    pc,                 \* where harvest is
    reason,             \* how harvest ended: "budget", "done", or the error raised
    now,                \* the clock
    calls,              \* invocations of fn by the current backoff_call
    cooldowns,          \* polite_sleep(62) taken by the current backoff_call
    answer,             \* how the last invocation of fn ended, "" before the first
    pos,                \* submissions the current result stream has yielded
    yielded,            \* submissions yielded in the run
    counted,            \* submissions of the current probe whose tokens were counted
    posts_counted,      \* subreddit -> post -> times its title and selftext were counted
    bodies_counted,     \* subreddit -> body -> times a comment with it was counted
    counted_here,       \* post -> times the current probe counted it
    comments_failed,    \* did sampling the comments of the last counted submission raise
    comments_read,      \* comments counted for the last counted submission
    periodic_pauses,    \* polite_sleep(sleep_seconds) taken in the run
    post_pauses,        \* polite_sleep(per_post_pause) taken in the run
    remote_requests,    \* sr.search calls and comment fetches issued in the run
    top_n,              \* args.top_n, read when the files are written
    uni_csv,            \* the rows of top20_unigrams_by_sub.csv, <<>> before it is written
    bi_csv,             \* the rows of top20_bigrams_by_sub.csv, <<>> before it is written
    norm,               \* a text under normalisation on its own, <<>> in a run of harvest
    searched            \* the <<sub, probe>> pairs harvest called backoff_call for, in order

\* the arguments of harvest
args == <<earliest_epoch, latest_epoch, time_budget_min, max_per_probe,
          include_comments, max_comments, sleep_every>>

\* the tables, and what was counted into them
tables == <<uni_per_sub, bi_per_sub, posts_counted, bodies_counted>>

\* the other locals of harvest
frame == <<started, requests_made, si, pi, taken, cur, pos, counted, counted_here,
           comments_failed, comments_read>>

\* the invocations and pauses of the current backoff_call
backoff == <<calls, cooldowns, answer>>

\* what the run did to the outside, and what the outside did
effects == <<now, yielded, periodic_pauses, post_pauses, remote_requests>>

\* what main writes after harvest
output == <<top_n, uni_csv, bi_csv>>

vars == <<args, tables, frame, backoff, effects, output, norm, searched, pc, reason>>

SubNames == {Subreddits[i] : i \in 1..Len(Subreddits)}

\* an error raised by the remote service: "TooManyRequests" is an instance of the
\* name TooManyRequests as the import bound it (main reaches harvest only when praw
\* and prawcore's class were imported), "Other" is any error that is not
Errors == {"TooManyRequests", "Other"}

Init ==
    /\ earliest_epoch \in {to_epoch_utc(iso) : iso \in EarliestIsoChoices}
    /\ latest_epoch = to_epoch_utc(LatestIso)
    /\ time_budget_min \in TimeBudgetChoices
    /\ max_per_probe \in MaxPerProbeChoices
    /\ include_comments \in BOOLEAN
    /\ max_comments \in MaxCommentsChoices
    /\ sleep_every \in SleepEveryChoices
    /\ uni_per_sub = [s \in SubNames |-> <<>>]
    /\ bi_per_sub = [s \in SubNames |-> <<>>]
    /\ now = 0
    /\ started = 0
    /\ requests_made = 0
    /\ si = 1
    /\ pi = 1
    /\ taken = 0
    /\ cur = 0
    /\ pc = "search"
    /\ reason = ""
    /\ calls = 0
    /\ cooldowns = 0
    /\ answer = ""
    /\ pos = 0
    /\ yielded = 0
    /\ counted = 0
    /\ posts_counted = [s \in SubNames |-> [p \in 1..Len(Posts) |-> 0]]
    /\ bodies_counted = [s \in SubNames |-> [b \in 1..Len(Bodies) |-> 0]]
    /\ counted_here = [p \in 1..Len(Posts) |-> 0]
    /\ comments_failed = FALSE
    /\ comments_read = 0
    /\ periodic_pauses = 0
    /\ post_pauses = 0
    /\ remote_requests = 0
    /\ top_n = 0
    /\ uni_csv = <<>>
    /\ bi_csv = <<>>
    /\ norm = <<>>
    /\ searched = <<>>

\* harvest has ended: its frame is gone
FrameGone ==
    /\ started' = 0
    /\ requests_made' = 0
    /\ si' = 1
    /\ pi' = 1
    /\ taken' = 0
    /\ cur' = 0
    /\ pos' = 0
    /\ counted' = 0
    /\ counted_here' = [p \in 1..Len(Posts) |-> 0]
    /\ comments_failed' = FALSE
    /\ comments_read' = 0

\* Returns handing back fresh tables when the budget ran out
ReturnsDroppingTables(why) ==
    /\ pc' = "returned"
    /\ reason' = why
    /\ FrameGone
    /\ IF why = "budget"
       THEN /\ uni_per_sub' = [s \in SubNames |-> <<>>]
            /\ bi_per_sub' = [s \in SubNames |-> <<>>]
            /\ UNCHANGED <<posts_counted, bodies_counted>>
       ELSE UNCHANGED tables

\* harvest returns uni_per_sub and bi_per_sub
Returns(why) ==
    /\ pc' = "returned"
    /\ reason' = why
    /\ FrameGone
    /\ UNCHANGED tables

\* Raises with harvest catching the error and returning its tables
RaisesReturning(where, e) ==
    /\ pc' = "returned"
    /\ reason' = e
    /\ FrameGone
    /\ UNCHANGED tables

\* the error e leaves harvest: the tables go with the frame
Raises(where, e) ==
    /\ pc' = where
    /\ reason' = e
    /\ FrameGone
    /\ uni_per_sub' = [s \in SubNames |-> <<>>]
    /\ bi_per_sub' = [s \in SubNames |-> <<>>]
    /\ posts_counted' = [s \in SubNames |-> [p \in 1..Len(Posts) |-> 0]]
    /\ bodies_counted' = [s \in SubNames |-> [b \in 1..Len(Bodies) |-> 0]]

Running == pc \notin {"returned", "written", "raised_search", "raised_stream"}

\* time.time() - started > time_budget_min * 60
BudgetExceeded == now - started > time_budget_min * 60

\* AfterFirstCall with an except clause that catches every error
AfterFirstCallCatchingAll(r) == IF r = "ok" THEN "return" ELSE "cooldown"

\* what backoff_call does after fn's first invocation ended as r
AfterFirstCall(r) ==
    IF r = "ok" THEN "return"
    ELSE IF r = "TooManyRequests" THEN "cooldown"
    ELSE "raise"

\* AfterSecondCall with the except clause around the retry as well
AfterSecondCallRetrying(r) ==
    IF r = "ok" THEN "return"
    ELSE IF r = "TooManyRequests" THEN "cooldown"
    ELSE "raise"

\* what backoff_call does after fn's second invocation ended as r: the except
\* clause catches nothing
AfterSecondCall(r) == IF r = "ok" THEN "return" ELSE "raise"

\* results = backoff_call(...) returned; taken = 0
StreamOpens ==
    /\ pc' = "iter"
    /\ taken' = 0
    /\ pos' = 0
    /\ counted' = 0
    /\ UNCHANGED <<reason, tables, started, requests_made, si, pi, cur, counted_here,
                   comments_failed, comments_read>>

\* the requests of a run that are followed: more than the searches, retries and
\* comment fetches a run over Subreddits, Probes and MaxItems items can make
MaxRequests == 2 * Len(Subreddits) * Len(Probes) + MaxItems + 1

\* fn's invocation ended as r and backoff_call does what: it returns the stream,
\* pauses before the retry, or lets the error leave harvest, which catches nothing
\* around backoff_call
BackoffDoes(what, r) ==
    /\ remote_requests < MaxRequests
    /\ calls' = calls + 1
    /\ answer' = r
    /\ remote_requests' = remote_requests + 1
    /\ CASE what = "return" -> StreamOpens
         [] what = "cooldown" ->
                /\ pc' = "cooldown"
                /\ UNCHANGED <<reason, tables, frame>>
         [] OTHER -> Raises("raised_search", r)
    /\ searched' = IF calls = 0
                   THEN Append(searched, <<Subreddits[si], Probes[pi]>>)
                   ELSE searched
    /\ UNCHANGED <<args, output, norm, cooldowns, now, yielded, periodic_pauses,
                   post_pauses>>

\* the first sr.search of the probe, through backoff_call
SearchFirst ==
    /\ pc = "search"
    /\ si <= Len(Subreddits)
    /\ \E r \in {"ok"} \cup Errors : BackoffDoes(AfterFirstCall(r), r)

\* the seconds of the pause in the except clause of backoff_call
CooldownSeconds == 62

\* the clock after a sleep of n seconds that began at t: the first reading not
\* before t + n, the last reading if there is none
AfterSleep(t, n) ==
    IF \E c \in ClockValues : c >= t + n
    THEN CHOOSE c \in ClockValues :
            c >= t + n /\ \A d \in ClockValues : d >= t + n => c <= d
    ELSE CHOOSE c \in ClockValues : \A d \in ClockValues : d <= c

\* polite_sleep(62) in the except clause of backoff_call
Cooldown ==
    /\ pc = "cooldown"
    /\ cooldowns' = cooldowns + 1
    /\ now' = AfterSleep(now, CooldownSeconds)
    /\ pc' = "retry"
    /\ UNCHANGED <<args, output, norm, searched, tables, frame, reason, calls, answer,
                   yielded, periodic_pauses, post_pauses, remote_requests>>

\* the second sr.search, in the except clause of backoff_call
SearchRetry ==
    /\ pc = "retry"
    /\ \E r \in {"ok"} \cup Errors : BackoffDoes(AfterSecondCall(r), r)

\* NextProbe of a loop over the probes with the loop over the subs inside
NextProbeSubsInner ==
    /\ pc' = "search"
    /\ IF si < Len(Subreddits)
       THEN si' = si + 1 /\ pi' = pi
       ELSE IF pi < Len(Probes)
            THEN si' = 1 /\ pi' = pi + 1
            ELSE si' = si + 1 /\ pi' = 1
    /\ pos' = 0
    /\ calls' = 0
    /\ cooldowns' = 0
    /\ answer' = ""
    /\ counted_here' = [p \in 1..Len(Posts) |-> 0]
    /\ comments_failed' = FALSE
    /\ comments_read' = 0
    /\ UNCHANGED <<args, output, norm, searched, effects, tables, reason, started,
                   requests_made, cur, counted>>

\* the end of "for submission in results": the next probe, or the next sub's first
NextProbe ==
    /\ pc' = "search"
    /\ IF pi < Len(Probes)
       THEN pi' = pi + 1 /\ si' = si
       ELSE pi' = 1 /\ si' = si + 1
    /\ pos' = 0
    /\ calls' = 0
    /\ cooldowns' = 0
    /\ answer' = ""
    /\ counted_here' = [p \in 1..Len(Posts) |-> 0]
    /\ comments_failed' = FALSE
    /\ comments_read' = 0
    /\ UNCHANGED <<args, output, norm, searched, effects, tables, reason, started,
                   requests_made, cur, counted>>

\* the result stream yields its next submission
StreamYield ==
    /\ pc = "iter"
    /\ yielded < MaxItems
    /\ \E p \in 1..Len(Posts) : cur' = p
    /\ pos' = pos + 1
    /\ yielded' = yielded + 1
    /\ pc' = "item"
    /\ UNCHANGED <<args, output, norm, searched, tables, backoff, reason, started,
                   requests_made, si, pi, taken, counted, counted_here, comments_failed,
                   comments_read, now, periodic_pauses, post_pauses, remote_requests>>

\* the result stream is exhausted
StreamEnd ==
    /\ pc = "iter"
    /\ NextProbe
    /\ UNCHANGED taken

\* the result stream raises while it is iterated: nothing in harvest catches it
StreamRaise ==
    /\ pc = "iter"
    /\ \E e \in Errors : Raises("raised_stream", e)
    /\ UNCHANGED <<args, output, norm, searched, effects, backoff>>

\* the deadline check before the item: return uni_per_sub, bi_per_sub
BudgetExpired ==
    /\ pc = "item"
    /\ BudgetExceeded
    /\ Returns("budget")
    /\ UNCHANGED <<args, output, norm, searched, effects, backoff>>

\* the class of the current submission
CurClass ==
    Classify(Created(Posts[cur].created_utc), earliest_epoch, latest_epoch)

\* ItemBranch with continue where the window test breaks
ItemBranchSkippingOld(cls, t) ==
    IF cls \in {"UNKNOWN", "TOO_NEW", "TOO_OLD"} THEN "continue"
    ELSE IF t + 1 > max_per_probe THEN "break_cap"
    ELSE "accept"

\* ItemBranch with the cap tested before taken is incremented
ItemBranchCapBeforeIncrement(cls, t) ==
    IF cls \in {"UNKNOWN", "TOO_NEW"} THEN "continue"
    ELSE IF cls = "TOO_OLD" THEN "break_old"
    ELSE IF t > max_per_probe THEN "break_cap"
    ELSE "accept"

\* what the loop body does with a submission of class cls when t submissions of
\* the probe were taken before it
ItemBranch(cls, t) ==
    IF cls \in {"UNKNOWN", "TOO_NEW"} THEN "continue"
    ELSE IF cls = "TOO_OLD" THEN "break_old"
    ELSE IF t + 1 > max_per_probe THEN "break_cap"
    ELSE "accept"

\* created == 0 or created > latest_epoch: continue
SkipItem ==
    /\ pc = "item"
    /\ ~BudgetExceeded
    /\ ItemBranch(CurClass, taken) = "continue"
    /\ pc' = "iter"
    /\ UNCHANGED <<args, output, norm, searched, effects, tables, frame, backoff,
                   reason>>

\* created < earliest_epoch: break
WindowExit ==
    /\ pc = "item"
    /\ ~BudgetExceeded
    /\ ItemBranch(CurClass, taken) = "break_old"
    /\ NextProbe
    /\ UNCHANGED taken

\* taken += 1; taken > max_per_probe: break
Capped ==
    /\ pc = "item"
    /\ ~BudgetExceeded
    /\ ItemBranch(CurClass, taken) = "break_cap"
    /\ taken' = taken + 1
    /\ NextProbe

\* AddUnigrams updating the Counter of every sub
AddUnigramsEverySub(table, sub, toks) ==
    [s \in DOMAIN table |-> CounterUpdate(table[s], UnigramKeys(toks))]

\* table with the unigrams of toks counted for sub
AddUnigrams(table, sub, toks) ==
    [table EXCEPT ![sub] = CounterUpdate(@, UnigramKeys(toks))]

\* AddBigrams without the loop over bigrams(toks)
AddBigramsNothing(table, sub, toks) == table

\* table with the bigrams of toks counted for sub
AddBigrams(table, sub, toks) ==
    [table EXCEPT ![sub] = CounterUpdate(@, BigramKeys(bigrams(toks)))]

\* taken += 1, the title and selftext are counted, requests_made += 1
AcceptPost ==
    /\ pc = "item"
    /\ ~BudgetExceeded
    /\ ItemBranch(CurClass, taken) = "accept"
    /\ taken' = taken + 1
    /\ uni_per_sub' = AddUnigrams(uni_per_sub, Subreddits[si], PostToks[cur])
    /\ bi_per_sub' = AddBigrams(bi_per_sub, Subreddits[si], PostToks[cur])
    /\ requests_made' = requests_made + 1
    /\ counted' = counted + 1
    /\ posts_counted' = [posts_counted EXCEPT ![Subreddits[si]][cur] = @ + 1]
    /\ counted_here' = [counted_here EXCEPT ![cur] = @ + 1]
    /\ comments_failed' = FALSE
    /\ comments_read' = 0
    /\ pc' = "pace"
    /\ UNCHANGED <<args, output, norm, searched, effects, backoff, bodies_counted,
                   reason, started, si, pi, cur, pos>>

\* PeriodicDueAt testing the counter as it was before requests_made += 1
PeriodicDueAtBefore(every, n) == (every > 0) /\ ((n - 1) % every = 0)

\* (sleep_every > 0) and (requests_made % sleep_every == 0) for sleep_every = every
\* and requests_made = n: the right operand is not evaluated when the left is false
PeriodicDueAt(every, n) == (every > 0) /\ (n % every = 0)

\* is polite_sleep(sleep_seconds) due when requests_made has become n
PeriodicDue(n) == PeriodicDueAt(sleep_every, n)

\* are the comments of a counted submission sampled
CommentsWanted == include_comments /\ max_comments > 0

\* the pacing after a counted submission
Pace ==
    /\ pc = "pace"
    /\ periodic_pauses' = periodic_pauses + (IF PeriodicDue(requests_made) THEN 1 ELSE 0)
    /\ post_pauses' = post_pauses + 1
    /\ pc' = IF CommentsWanted THEN "comments" ELSE "iter"
    /\ UNCHANGED <<args, output, norm, searched, tables, frame, backoff, reason, now,
                   yielded, remote_requests>>

\* CountedComments without the break at i >= max_comments
RECURSIVE CountedCommentsUncapped(_, _)
CountedCommentsUncapped(list, n) ==
    IF list = <<>> \/ n = 0 \/ Head(list) = 0 THEN <<>>
    ELSE <<Head(list)>> \o CountedCommentsUncapped(Tail(list), n)

\* the comments of list whose tokens are counted: those at indices below n, up to
\* the first whose body cannot be read
RECURSIVE CountedComments(_, _)
CountedComments(list, n) ==
    IF list = <<>> \/ n = 0 \/ Head(list) = 0 THEN <<>>
    ELSE <<Head(list)>> \o CountedComments(Tail(list), n - 1)

\* does reading the comments of list raise before the loop over them ends
CommentsRaise(list, n) ==
    \E i \in 1..Len(list) : i <= n /\ list[i] = 0

\* table with the unigrams of the comment bodies bs counted for sub
RECURSIVE AddCommentUnigrams(_, _, _)
AddCommentUnigrams(table, sub, bs) ==
    IF bs = <<>> THEN table
    ELSE AddCommentUnigrams(AddUnigrams(table, sub, BodyToks[Head(bs)]), sub, Tail(bs))

\* table with the bigrams of the comment bodies bs counted for sub
RECURSIVE AddCommentBigrams(_, _, _)
AddCommentBigrams(table, sub, bs) ==
    IF bs = <<>> THEN table
    ELSE AddCommentBigrams(AddBigrams(table, sub, BodyToks[Head(bs)]), sub, Tail(bs))

\* bodies_counted with the bodies bs counted for sub
RECURSIVE NoteBodies(_, _, _)
NoteBodies(n, sub, bs) ==
    IF bs = <<>> THEN n
    ELSE NoteBodies([n EXCEPT ![sub][Head(bs)] = @ + 1], sub, Tail(bs))

\* the try block: replace_more, comments.list() and the loop over the comments;
\* fetched is FALSE when replace_more or list() raises
SampleComments ==
    /\ pc = "comments"
    /\ \E fetched \in BOOLEAN, list \in CommentLists :
        LET bs == IF fetched THEN CountedComments(list, max_comments) ELSE <<>>
        IN  /\ fetched \/ list = <<>>
            /\ uni_per_sub' = AddCommentUnigrams(uni_per_sub, Subreddits[si], bs)
            /\ bi_per_sub' = AddCommentBigrams(bi_per_sub, Subreddits[si], bs)
            /\ bodies_counted' = NoteBodies(bodies_counted, Subreddits[si], bs)
            /\ comments_read' = Len(bs)
            /\ comments_failed' = (~fetched \/ CommentsRaise(list, max_comments))
    /\ remote_requests' = remote_requests + 1
    /\ pc' = "iter"
    /\ UNCHANGED <<args, output, norm, searched, backoff, posts_counted, counted_here,
                   reason, started, requests_made, si, pi, taken, cur, pos, counted,
                   now, yielded, periodic_pauses, post_pauses>>

\* the subs are exhausted: return uni_per_sub, bi_per_sub
Return ==
    /\ pc = "search"
    /\ si > Len(Subreddits)
    /\ Returns("done")
    /\ UNCHANGED <<args, output, norm, searched, effects, backoff>>

\* time passes while harvest runs
Tick ==
    /\ Running
    /\ \E t \in ClockValues : t > now /\ now' = t
    /\ UNCHANGED <<args, output, norm, searched, tables, frame, backoff, pc, reason,
                   yielded, periodic_pauses, post_pauses, remote_requests>>

\* FirstLargest taking the last of the entries with the largest count
LastLargest(c) ==
    CHOOSE i \in 1..Len(c) :
        /\ \A j \in 1..Len(c) : c[j][2] <= c[i][2]
        /\ \A j \in (i + 1)..Len(c) : c[j][2] < c[i][2]

\* the index of the first entry of the Counter c with the largest count
FirstLargest(c) ==
    CHOOSE i \in 1..Len(c) :
        /\ \A j \in 1..Len(c) : c[j][2] <= c[i][2]
        /\ \A j \in 1..(i - 1) : c[j][2] < c[i][2]

\* the sequence q without its i-th element
Without(q, i) == SubSeq(q, 1, i - 1) \o SubSeq(q, i + 1, Len(q))

\* Counter.most_common(n): heapq.nlargest(n, items, key=count), which is
\* sorted(items, key=count, reverse=True)[:n] with equal counts in insertion order
RECURSIVE most_common(_, _)
most_common(c, n) ==
    IF n <= 0 \/ c = <<>> THEN <<>>
    ELSE <<c[FirstLargest(c)]>> \o most_common(Without(c, FirstLargest(c)), n - 1)

\* the rows [sub, key, cnt] write_topn_csv writes for the subs from the i-th on
RECURSIVE TopRows(_, _, _)
TopRows(per_sub_counts, i, n) ==
    IF i > Len(Subreddits) THEN <<>>
    ELSE LET top == most_common(per_sub_counts[Subreddits[i]], n)
         IN  [k \in 1..Len(top) |-> <<Subreddits[i], top[k][1], top[k][2]>>]
             \o TopRows(per_sub_counts, i + 1, n)

\* write_topn_csv: the header row, then the rows of each sub in order
write_topn_csv(per_sub_counts, header_word, n) ==
    << <<"subreddit", header_word, "count">> >> \o TopRows(per_sub_counts, 1, n)

TopNChoices == 0..3

\* main after harvest returned: both files are written
WriteTopN ==
    /\ pc = "returned"
    /\ \E n \in TopNChoices :
        /\ top_n' = n
        /\ uni_csv' = write_topn_csv(uni_per_sub, "word", n)
        /\ bi_csv' = write_topn_csv(bi_per_sub, "phrase", n)
    /\ pc' = "written"
    /\ UNCHANGED <<args, norm, searched, tables, frame, backoff, effects, reason>>

Next ==
    \/ SearchFirst
    \/ Cooldown
    \/ SearchRetry
    \/ StreamYield
    \/ StreamEnd
    \/ StreamRaise
    \/ BudgetExpired
    \/ SkipItem
    \/ WindowExit
    \/ Capped
    \/ AcceptPost
    \/ Pace
    \/ SampleComments
    \/ Return
    \/ WriteTopN
    \/ Tick

Spec == Init /\ [][Next]_vars

\* a step of the program, or an answer of the remote service to it
Step ==
    \/ SearchFirst
    \/ Cooldown
    \/ SearchRetry
    \/ StreamYield
    \/ StreamEnd
    \/ StreamRaise
    \/ BudgetExpired
    \/ SkipItem
    \/ WindowExit
    \/ Capped
    \/ AcceptPost
    \/ Pace
    \/ SampleComments
    \/ Return
    \/ WriteTopN

\* the runs with periodic pauses, a cap of one post a probe and two comments
\* sampled a post
FairInit ==
    /\ Init
    /\ sleep_every > 0
    /\ max_per_probe = 1
    /\ include_comments
    /\ max_comments = 2
    /\ earliest_epoch \in {<<>>, to_epoch_utc(<<1970, 1, 1, 0, 0, 2>>)}

\* the interpreter runs the one thread while it can, every call and every sleep
\* returns or raises, and every result stream ends
FairSpec == FairInit /\ [][Next]_vars /\ WF_vars(Step)

\* ------------------------------------------------- the text functions alone

\* the characters of the texts tried: letters of "http" in both cases, a letter, a
\* space, a separator and a whitespace character other than the space
TextChars == {"H", "T", "P", "h", "a", " ", "-", VerticalTab}

\* longest text tried
MaxText == 5

Texts == SeqsUpTo(TextChars, MaxText)

\* " ".join(toks)
RECURSIVE Join(_)
Join(toks) ==
    IF toks = <<>> THEN <<>>
    ELSE IF Len(toks) = 1 THEN toks[1]
    ELSE toks[1] \o <<" ">> \o Join(Tail(toks))

\* a text is given, no harvest runs
NormInit ==
    /\ norm \in {[stage |-> "text", s |-> t] : t \in Texts}
    /\ pc = "text"
    /\ reason = ""
    /\ earliest_epoch = <<>>
    /\ latest_epoch = to_epoch_utc(LatestIso)
    /\ time_budget_min = 1
    /\ max_per_probe = 0
    /\ include_comments = FALSE
    /\ max_comments = 0
    /\ sleep_every = 0
    /\ uni_per_sub = [x \in SubNames |-> <<>>]
    /\ bi_per_sub = [x \in SubNames |-> <<>>]
    /\ posts_counted = [x \in SubNames |-> [p \in 1..Len(Posts) |-> 0]]
    /\ bodies_counted = [x \in SubNames |-> [b \in 1..Len(Bodies) |-> 0]]
    /\ started = 0 /\ requests_made = 0
    /\ si = 1 /\ pi = 1
    /\ taken = 0 /\ cur = 0 /\ pos = 0
    /\ counted = 0
    /\ counted_here = [p \in 1..Len(Posts) |-> 0]
    /\ comments_failed = FALSE /\ comments_read = 0
    /\ calls = 0 /\ cooldowns = 0 /\ answer = ""
    /\ now = 0 /\ yielded = 0
    /\ periodic_pauses = 0 /\ post_pauses = 0 /\ remote_requests = 0
    /\ top_n = 0 /\ uni_csv = <<>> /\ bi_csv = <<>>
    /\ searched = <<>>

harvest_vars == <<args, tables, frame, backoff, effects, output, searched, reason>>

\* toks = tokenize(clean_text(s))
Normalize ==
    /\ pc = "text"
    /\ norm' = [stage |-> "tokens", s |-> norm.s, toks |-> tokenize(clean_text(norm.s))]
    /\ pc' = "tokens"
    /\ UNCHANGED harvest_vars

\* the tokens are joined with single spaces and normalised again
Renormalize ==
    /\ pc = "tokens"
    /\ norm' = [stage |-> "again", s |-> norm.s, toks |-> norm.toks,
                again |-> tokenize(clean_text(Join(norm.toks)))]
    /\ pc' = "again"
    /\ UNCHANGED harvest_vars

\* list(bigrams(toks))
Pairs ==
    /\ pc = "tokens"
    /\ norm' = [stage |-> "pairs", s |-> norm.s, toks |-> norm.toks,
                pairs |-> bigrams(norm.toks)]
    /\ pc' = "pairs"
    /\ UNCHANGED harvest_vars

NormNext ==
    \/ Normalize
    \/ Renormalize
    \/ Pairs

NormSpec == NormInit /\ [][NormNext]_vars

\* -------------------------------------------------------------- claims

\* C1: once the budget is exceeded, harvest issues no further request to the
\* remote service: no search and no comment fetch
C1_NoRequestAfterBudget ==
    [][BudgetExceeded => remote_requests' = remote_requests]_vars

\* the count of key in the Counter c
KeyCount(c, key) ==
    IF \E i \in 1..Len(c) : c[i][1] = key
    THEN c[CHOOSE i \in 1..Len(c) : c[i][1] = key][2]
    ELSE 0

\* the occurrences of key in the sequence keys
RECURSIVE Occ(_, _)
Occ(keys, key) ==
    IF keys = <<>> THEN 0
    ELSE (IF Head(keys) = key THEN 1 ELSE 0) + Occ(Tail(keys), key)

\* the sum of f[i] * Occ(keysOf[i], key) over i in 1..n
RECURSIVE Weighted(_, _, _, _)
Weighted(f, keysOf, key, n) ==
    IF n = 0 THEN 0
    ELSE f[n] * Occ(keysOf[n], key) + Weighted(f, keysOf, key, n - 1)

PostUnigrams == [p \in 1..Len(Posts) |-> UnigramKeys(PostToks[p])]
PostBigrams == [p \in 1..Len(Posts) |-> BigramKeys(bigrams(PostToks[p]))]
BodyUnigrams == [b \in 1..Len(Bodies) |-> UnigramKeys(BodyToks[b])]
BodyBigrams == [b \in 1..Len(Bodies) |-> BigramKeys(bigrams(BodyToks[b]))]

KeysOf(f) == UNION {{f[i][j] : j \in 1..Len(f[i])} : i \in DOMAIN f}

\* the keys a unigram table, and a bigram table, can hold
UnigramUniverse == KeysOf(PostUnigrams) \cup KeysOf(BodyUnigrams)
BigramUniverse == KeysOf(PostBigrams) \cup KeysOf(BodyBigrams)

\* the occurrences of each key of the universe in each post and each body
PostOcc(postKeys, universe) ==
    [p \in 1..Len(Posts) |-> [key \in universe |-> Occ(postKeys[p], key)]]
BodyOcc(bodyKeys, universe) ==
    [b \in 1..Len(Bodies) |-> [key \in universe |-> Occ(bodyKeys[b], key)]]
UniPostOcc == PostOcc(PostUnigrams, UnigramUniverse)
UniBodyOcc == BodyOcc(BodyUnigrams, UnigramUniverse)
BiPostOcc == PostOcc(PostBigrams, BigramUniverse)
BiBodyOcc == BodyOcc(BodyBigrams, BigramUniverse)

\* the sum of f[i] over i in 1..n
RECURSIVE SumTo(_, _)
SumTo(f, n) == IF n = 0 THEN 0 ELSE f[n] + SumTo(f, n - 1)

\* the count key has in a table when each post and body was counted as often as
\* posts and bodies say
Expected(posts, bodies, postOcc, bodyOcc, key) ==
    SumTo([p \in 1..Len(Posts) |-> posts[p] * postOcc[p][key]], Len(Posts))
    + SumTo([b \in 1..Len(Bodies) |-> bodies[b] * bodyOcc[b][key]], Len(Bodies))

\* the Counter c holds exactly the keys of the counted submissions and comments
\* of sub, each once, with the number of its occurrences in them
Accumulated(c, sub, universe, postOcc, bodyOcc) ==
    /\ \A i, j \in 1..Len(c) : c[i][1] = c[j][1] => i = j
    /\ \A i \in 1..Len(c) :
        /\ c[i][1] \in universe
        /\ c[i][2] > 0
        /\ c[i][2] = Expected(posts_counted[sub], bodies_counted[sub],
                              postOcc, bodyOcc, c[i][1])
    /\ \A key \in universe :
        (\A i \in 1..Len(c) : c[i][1] # key)
            => Expected(posts_counted[sub], bodies_counted[sub],
                        postOcc, bodyOcc, key) = 0

\* both tables hold exactly what was counted
TablesExact ==
    \A sub \in SubNames :
        /\ Accumulated(uni_per_sub[sub], sub, UnigramUniverse, UniPostOcc, UniBodyOcc)
        /\ Accumulated(bi_per_sub[sub], sub, BigramUniverse, BiPostOcc, BiBodyOcc)

\* C2: when the deadline check before an item finds the budget exceeded, harvest
\* returns normally, and the returned tables are exactly the accumulation of the
\* items counted before: nothing lost, nothing added
C2_BudgetReturnsAccumulation ==
    [][(pc = "item" /\ BudgetExceeded /\ pc' # pc)
        => /\ TablesExact
           /\ pc' = "returned"
           /\ reason' = "budget"
           /\ uni_per_sub' = uni_per_sub
           /\ bi_per_sub' = bi_per_sub
           /\ TablesExact']_vars

\* harvest returned on the budget with counted tokens in a table
C2_Witness ==
    /\ pc = "returned"
    /\ reason = "budget"
    /\ \E sub \in SubNames : uni_per_sub[sub] # <<>> /\ bi_per_sub[sub] # <<>>

\* the step leaves the current probe for the next probe, or the next sub's first
ToNextProbe ==
    /\ pc' = "search"
    /\ <<si', pi'>> = IF pi < Len(Probes) THEN <<si, pi + 1>> ELSE <<si + 1, 1>>

\* the step ends an invocation of fn by backoff_call
Invoked == calls' = calls + 1

\* C3: a search still rejected as rate-limited on its retry is fatal for the probe
\* only: harvest goes on with the next probe and keeps the tables
C3_RateLimitFatalForProbeOnly ==
    [][(pc = "retry" /\ Invoked /\ answer' = "TooManyRequests")
        => (ToNextProbe /\ UNCHANGED tables)]_vars

\* C4: backoff_call invokes fn at most twice; a rate-limit rejection of the first
\* invocation is followed by exactly one cooldown and exactly one more invocation;
\* the outcome of the second invocation, and a first outcome that is not a
\* rate-limit rejection, go to the caller with no pause and no retry
C4_BackoffAtMostOneRetry ==
    [][/\ calls' \in 0..2 /\ cooldowns' \in 0..1
       /\ Invoked =>
            /\ pc \in {"search", "retry"}
            /\ cooldowns' = cooldowns
            /\ pc = "search" => calls = 0 /\ cooldowns = 0
            /\ pc = "retry" => calls = 1 /\ cooldowns = 1
            /\ answer' = "ok" => pc' = "iter"
            /\ (pc = "search" /\ answer' = "TooManyRequests") => pc' = "cooldown"
            /\ (pc = "retry" \/ answer' = "Other") /\ answer' # "ok"
                    => pc' = "raised_search" /\ reason' = answer'
       /\ cooldowns' = cooldowns + 1 =>
            /\ pc = "cooldown" /\ pc' = "retry"
            /\ calls = 1 /\ calls' = 1 /\ cooldowns = 0
            /\ answer = "TooManyRequests"
            /\ now' >= now
       /\ pc = "cooldown" /\ pc' # pc => cooldowns' = cooldowns + 1
       /\ pc = "retry" /\ pc' # pc => Invoked
       /\ ~Invoked /\ cooldowns' # cooldowns + 1
            => \/ UNCHANGED backoff
               \/ pc' = "search" /\ backoff' = <<0, 0, "">> ]_vars

\* the retry was rejected too, after one cooldown
C4_Witness ==
    /\ pc = "raised_search"
    /\ reason = "TooManyRequests"
    /\ calls = 2
    /\ cooldowns = 1

\* C5: a TOO_OLD item ends the consumption of its stream: nothing is counted for
\* it, no later item of the stream is yielded, and harvest goes on with the next
\* probe
C5_TooOldStopsStream ==
    [][/\ (pc = "item" /\ ~BudgetExceeded /\ CurClass = "TOO_OLD" /\ pc' # pc)
            => /\ ToNextProbe
               /\ pos' = 0
               /\ UNCHANGED <<tables, yielded, counted>>
       /\ (yielded' # yielded \/ counted' > counted)
            => (pc \in {"iter", "item"} /\ (pos > 0 => CurClass # "TOO_OLD"))]_vars

\* of the stream [in-window, in-window, too-old, ...] of the first probe the first
\* two were counted, and harvest is at the second probe
C5_Witness ==
    /\ pc = "search"
    /\ <<si, pi>> = <<1, 2>>
    /\ yielded = 3
    /\ cur > 0
    /\ CurClass = "TOO_OLD"
    /\ counted = 2
    /\ posts_counted[Subreddits[1]][3] = 2

Min(a, b) == IF a <= b THEN a ELSE b

\* C6: the items counted for a probe never exceed max_per_probe: the items counted
\* are the in-window items taken, up to the cap, and the in-window item after the
\* cap ends the probe uncounted
C6_PerProbeCap ==
    /\ counted <= max_per_probe
    /\ counted = Min(taken, max_per_probe)
    /\ taken <= max_per_probe + 1
    /\ taken = max_per_probe + 1 => pc \in {"search", "cooldown", "retry"}

\* the third in-window item of a stream ended the probe with two counted
C6_Witness ==
    /\ max_per_probe = 2
    /\ taken = 3
    /\ counted = 2
    /\ pc = "search"
    /\ pos = 0

\* largest timestamp the window test is tried on
MaxStamp == 6

\* the created_utc attributes tried: absent, or a timestamp
Timestamps == {<<>>} \cup {<<t>> : t \in 0..MaxStamp}

\* C7: in the window (earliest, latest) an absent or zero timestamp is UNKNOWN, one
\* above latest is TOO_NEW, one below a configured earliest is TOO_OLD, every other
\* one is IN_WINDOW; both bounds are inclusive, without earliest nothing is
\* TOO_OLD, and harvest counts an item exactly when it is IN_WINDOW
C7_WindowClassification ==
    /\ \A attr \in Timestamps :
        LET class == Classify(Created(attr), earliest_epoch, latest_epoch)
            known == attr # <<>> /\ attr[1] # 0
            above == known /\ attr[1] > latest_epoch[1]
            below == known /\ earliest_epoch # <<>> /\ attr[1] < earliest_epoch[1]
        IN  /\ class = "UNKNOWN" <=> ~known
            /\ class = "TOO_NEW" <=> above
            /\ class = "TOO_OLD" <=> (below /\ ~above)
            /\ class = "IN_WINDOW" <=> (known /\ ~above /\ ~below)
            /\ (known /\ attr = latest_epoch) => class = "IN_WINDOW"
            /\ (known /\ attr = earliest_epoch) => class = "IN_WINDOW"
            /\ earliest_epoch = <<>> => class # "TOO_OLD"
    /\ pc \in {"pace", "comments"} =>
        /\ Posts[cur].created_utc # <<>>
        /\ Posts[cur].created_utc[1] # 0
        /\ Posts[cur].created_utc[1] <= latest_epoch[1]
        /\ earliest_epoch # <<>> => Posts[cur].created_utc[1] >= earliest_epoch[1]

\* in one run an item stamped earliest and an item stamped latest were counted
C7_Witness ==
    /\ earliest_epoch # <<>>
    /\ \E sub \in SubNames, p, q \in 1..Len(Posts) :
        /\ Posts[p].created_utc = earliest_epoch
        /\ Posts[q].created_utc = latest_epoch
        /\ posts_counted[sub][p] > 0
        /\ posts_counted[sub][q] > 0

\* C8: a failure while the comments of a counted item are fetched or read, also
\* part-way through the list, adds no comment token to the tables, and harvest
\* goes on with the stream
C8_FailedCommentsCountNothing ==
    [][(pc = "comments" /\ comments_failed')
        => /\ pc' = "iter"
           /\ uni_per_sub' = uni_per_sub
           /\ bi_per_sub' = bi_per_sub]_vars

\* C9: an error of a search that is not a rate-limit rejection is contained to the
\* probe: harvest goes on with the next probe and keeps the tables
C9_SearchErrorContained ==
    [][(Invoked /\ answer' = "Other") => (ToNextProbe /\ UNCHANGED tables)]_vars

\* the items counted in the run
TotalCounted ==
    SumTo([i \in 1..Len(Subreddits) |->
              SumTo(posts_counted[Subreddits[i]], Len(Posts))], Len(Subreddits))

\* C10: with sleep_every = N > 0 a run that ends took one sleep_seconds pause for
\* every N requests it made to the remote service, and one per_post_pause pause
\* for every counted item
C10_PauseEveryNRequests ==
    (pc = "returned" /\ reason = "done" /\ sleep_every > 0)
        => /\ periodic_pauses = remote_requests \div sleep_every
           /\ post_pauses = TotalCounted

\* the rows of sub in the written file csv, without the header row
RowsOf(csv, sub) ==
    LET OfSub(r) == r[1] = sub
    IN  SelectSeq(Tail(csv), OfSub)

\* the position of key in the Counter c, 0 when c does not hold it
IndexOf(c, key) ==
    IF \E i \in 1..Len(c) : c[i][1] = key
    THEN CHOOSE i \in 1..Len(c) : c[i][1] = key
    ELSE 0

\* rows is the top-n view of the Counter c: at most n of its entries, all when it
\* has no more than n, counts non-increasing, equal counts in insertion order,
\* and no entry left out that should come before a row
TopView(rows, c, n) ==
    /\ Len(rows) <= n
    /\ Len(rows) = Min(n, Len(c))
    /\ \A k \in 1..Len(rows) :
        /\ IndexOf(c, rows[k][2]) > 0
        /\ rows[k][3] = c[IndexOf(c, rows[k][2])][2]
    /\ \A k, l \in 1..Len(rows) :
        k < l =>
            /\ rows[k][3] >= rows[l][3]
            /\ rows[k][3] = rows[l][3]
                    => IndexOf(c, rows[k][2]) < IndexOf(c, rows[l][2])
    /\ \A i \in 1..Len(c) :
        (\A k \in 1..Len(rows) : rows[k][2] # c[i][1])
            => \A k \in 1..Len(rows) :
                  \/ c[i][2] < rows[k][3]
                  \/ c[i][2] = rows[k][3] /\ IndexOf(c, rows[k][2]) < i

\* C11: the top-N view the writers take of a forum's table holds at most n
\* (key, count) pairs in non-increasing count order, equal counts in insertion order
C11_TopNStableOrder ==
    pc = "written" =>
        \A sub \in SubNames :
            /\ TopView(RowsOf(uni_csv, sub), uni_per_sub[sub], top_n)
            /\ TopView(RowsOf(bi_csv, sub), bi_per_sub[sub], top_n)

\* with n = 2 a table whose first key has the lowest count and whose next two
\* keys tie gave the two tied keys, in insertion order
C11_Witness ==
    /\ pc = "written"
    /\ top_n = 2
    /\ \E sub \in SubNames :
        LET c == uni_per_sub[sub]
        IN  /\ Len(c) = 3
            /\ c[1][2] < c[2][2]
            /\ c[2][2] = c[3][2]
            /\ RowsOf(uni_csv, sub) = << <<sub, c[2][1], c[2][2]>>,
                                         <<sub, c[3][1], c[3][2]>> >>

\* C12: token statistics are deduplicated across probes: an item that an earlier
\* probe of the forum counted is not counted again for that forum
C12_CountedOncePerForum ==
    [][counted' > counted
        => posts_counted[Subreddits[si]][cur] = counted_here[cur]]_vars

\* C13: normalisation is idempotent on its output: the tokens of a text, joined
\* with single spaces and normalised again, are the same tokens
C13_NormalizeIdempotent ==
    pc = "again" => norm.again = norm.toks

\* the position of the first space of the phrase, 0 when it has none
FirstSpace(phrase) ==
    IF \E i \in 1..Len(phrase) : phrase[i] = " "
    THEN CHOOSE i \in 1..Len(phrase) :
            phrase[i] = " " /\ \A j \in 1..(i - 1) : phrase[j] # " "
    ELSE 0

AllDigits(w) == w # <<>> /\ \A i \in 1..Len(w) : w[i] \in Digits

VaForm == <<"v", "a", " ", "f", "o", "r", "m">>

\* the titles that begin with the words VA form
VaFormTitles ==
    {<<"V","A"," ","f","o","r","m">>, <<"V","A"," ","f","o","r","m"," ","9">>}

\* C14: no key of a unigram table is a stop word (base or domain set), shorter
\* than 3 characters or purely numeric; no component of a bigram key is a stop
\* word or shorter than 2 characters; the bigram "va form" of a counted post is
\* admitted
C14_TablesHoldValidKeys ==
    \A sub \in SubNames :
        /\ \A i \in 1..Len(uni_per_sub[sub]) :
            LET w == uni_per_sub[sub][i][1]
            IN  /\ Len(w) >= 3
                /\ w \notin STOPWORDS
                /\ w \notin DOMAIN_STOP
                /\ ~AllDigits(w)
        /\ \A i \in 1..Len(bi_per_sub[sub]) :
            LET phrase == bi_per_sub[sub][i][1][1]
                space == FirstSpace(phrase)
                left == SubSeq(phrase, 1, space - 1)
                right == SubSeq(phrase, space + 1, Len(phrase))
            IN  /\ space > 0
                /\ Len(left) >= 2
                /\ Len(right) >= 2
                /\ left \notin STOPWORDS
                /\ right \notin STOPWORDS
                /\ left \notin DOMAIN_STOP
                /\ right \notin DOMAIN_STOP
        /\ \A p \in 1..Len(Posts) :
            (posts_counted[sub][p] > 0 /\ Posts[p].title \in VaFormTitles)
                => IndexOf(bi_per_sub[sub], <<VaForm>>) > 0

\* a forum for which "VA form 9 va is" and "The claim denied 21-526" were counted.
\* Met and kept out of the unigrams: va and 21 (short), 9 (short, numeric), 526
\* (numeric), the and is (stop words). Met and kept out of the bigrams: "form 9"
\* and "9 va" (a component of one character), "va is" (stop word second), "the
\* claim" (stop word first). Kept: form, claim, denied, and "va form", "claim
\* denied", "denied 21", "21 526"
C14_Witness ==
    \E sub \in SubNames :
        /\ posts_counted[sub][2] > 0
        /\ posts_counted[sub][3] > 0
        /\ IndexOf(bi_per_sub[sub], <<VaForm>>) > 0
        /\ Len(uni_per_sub[sub]) = 3
        /\ Len(bi_per_sub[sub]) = 4
        /\ PostToks[3] = << <<"v","a">>, <<"f","o","r","m">>, <<"9">>, <<"v","a">>,
                            <<"i","s">> >>

\* C15: over finite lists and finite result streams every run of harvest
\* eventually ends, by returning its tables or by raising, whatever the answers of
\* the remote service and the readings of the clock
C15_HarvestTerminates == <>(~Running)

\* harvest has ended after a rate-limit rejection, a retry and a clock past the
\* budget
C15_Witness ==
    /\ ~Running
    /\ cooldowns = 1
    /\ calls = 2
    /\ now - time_budget_min * 60 > 0
    /\ yielded = MaxItems

\* the comments counted for sub
BodiesOf(n, sub) == SumTo(n[sub], Len(Bodies))

\* C16: comments are fetched for a counted item only when include_comments is true
\* and max_comments > 0; then at most max_comments comments of the item are
\* counted, into the tables of the forum of the post; otherwise no comment
\* request is made
C16_CommentsOnlyWhenEnabled ==
    [][/\ (pc = "comments" \/ pc' = "comments")
            => (include_comments /\ max_comments > 0)
       /\ (remote_requests' # remote_requests /\ ~Invoked)
            => (pc = "comments" /\ include_comments /\ max_comments > 0)
       /\ (pc # "comments" /\ pc' \notin {"raised_search", "raised_stream"})
            => bodies_counted' = bodies_counted
       /\ (pc = "comments" /\ pc' # pc)
            => /\ cur > 0
               /\ CurClass = "IN_WINDOW"
               /\ comments_read' <= max_comments
               /\ BodiesOf(bodies_counted', Subreddits[si])
                    = BodiesOf(bodies_counted, Subreddits[si]) + comments_read'
               /\ posts_counted' = posts_counted
               /\ \A sub \in SubNames \ {Subreddits[si]} :
                    /\ bodies_counted'[sub] = bodies_counted[sub]
                    /\ uni_per_sub'[sub] = uni_per_sub[sub]
                    /\ bi_per_sub'[sub] = bi_per_sub[sub]
               /\ comments_read' = 0
                    => (uni_per_sub' = uni_per_sub /\ bi_per_sub' = bi_per_sub)
               /\ LET new == [b \in 1..Len(Bodies) |->
                                bodies_counted'[Subreddits[si]][b]
                                - bodies_counted[Subreddits[si]][b]]
                  IN  comments_read' > 0 =>
                      /\ \A key \in KeysOf(PostUnigrams) \cup KeysOf(BodyUnigrams) :
                            KeyCount(uni_per_sub'[Subreddits[si]], key)
                            = KeyCount(uni_per_sub[Subreddits[si]], key)
                              + Weighted(new, BodyUnigrams, key, Len(Bodies))
                      /\ \A key \in KeysOf(PostBigrams) \cup KeysOf(BodyBigrams) :
                            KeyCount(bi_per_sub'[Subreddits[si]], key)
                            = KeyCount(bi_per_sub[Subreddits[si]], key)
                              + Weighted(new, BodyBigrams, key, Len(Bodies))]_vars

\* two comments of a post of the second forum were counted, the cap being two
C16_Witness ==
    /\ pc = "iter"
    /\ si = 2
    /\ max_comments = 2
    /\ comments_read = 2
    /\ bodies_counted[Subreddits[2]][1] = 2
    /\ bodies_counted[Subreddits[1]][1] = 0
    /\ KeyCount(uni_per_sub[Subreddits[2]], <<"d", "e", "n", "i", "e", "d">>) >= 2

\* every entry of the Counter c is an entry of d, at its place, with a count that
\* is not smaller
Grown(c, d) ==
    /\ Len(c) <= Len(d)
    /\ \A i \in 1..Len(c) : d[i][1] = c[i][1] /\ d[i][2] >= c[i][2]

\* C17: no step of a run of harvest decreases a count of a table, removes a key or
\* resets a table
C17_CountsOnlyGrow ==
    [][pc' \notin {"raised_search", "raised_stream"}
        => \A sub \in SubNames :
              /\ Grown(uni_per_sub[sub], uni_per_sub'[sub])
              /\ Grown(bi_per_sub[sub], bi_per_sub'[sub])]_vars

\* a count of a forum was raised past one and a key was added after it
C17_Witness ==
    \E sub \in SubNames :
        /\ Len(uni_per_sub[sub]) = 3
        /\ uni_per_sub[sub][1][2] = 3
        /\ bi_per_sub[sub][1][2] >= 2

\* C18: of a token sequence of length N bigram production yields max(N - 1, 0)
\* pairs, the i-th being (tokens[i], tokens[i + 1]): contiguous, in the original
\* order
C18_BigramsAdjacentPairs ==
    pc = "pairs" =>
        /\ Len(norm.toks) = 0 => norm.pairs = <<>>
        /\ Len(norm.toks) > 0 => Len(norm.pairs) = Len(norm.toks) - 1
        /\ \A i \in 1..Len(norm.pairs) :
            /\ Len(norm.pairs[i]) = 2
            /\ norm.pairs[i][1] = norm.toks[i]
            /\ norm.pairs[i][2] = norm.toks[i + 1]

\* the two pairs of three different tokens
C18_Witness ==
    /\ pc = "pairs"
    /\ Len(norm.toks) = 3
    /\ norm.toks[1] # norm.toks[2]
    /\ norm.toks[2] # norm.toks[3]
    /\ norm.pairs = << <<norm.toks[1], norm.toks[2]>>, <<norm.toks[2], norm.toks[3]>> >>

\* the current submission has no timestamp or the timestamp 0
CurUnknown == Posts[cur].created_utc = <<>> \/ Posts[cur].created_utc[1] = 0

\* the current submission is stamped after the latest bound
CurTooNew == ~CurUnknown /\ Posts[cur].created_utc[1] > latest_epoch[1]

\* C19: an UNKNOWN or TOO_NEW item is skipped and the scan of the same stream goes
\* on; the skip changes no table, not the per-probe counter taken, not the pacing
\* counter requests_made, and takes no pause; an UNKNOWN item ends no probe
C19_SkipChangesNothing ==
    [][(pc = "item" /\ ~BudgetExceeded /\ (CurUnknown \/ CurTooNew) /\ pc' # pc)
        => /\ pc' = "iter"
           /\ <<si', pi', pos'>> = <<si, pi, pos>>
           /\ UNCHANGED <<uni_per_sub, bi_per_sub, posts_counted, bodies_counted>>
           /\ UNCHANGED <<taken, counted, requests_made>>
           /\ UNCHANGED <<periodic_pauses, post_pauses, remote_requests>>]_vars

\* after a counted item an item without timestamp was skipped under a window with
\* an earliest bound, and the stream is still scanned
C19_Witness ==
    /\ pc = "iter"
    /\ earliest_epoch # <<>>
    /\ pos = 2
    /\ cur > 0
    /\ CurUnknown
    /\ taken = 1
    /\ counted = 1

\* the <<sub, probe>> pairs, subs in list order, probes in list order within a sub
AllPairs ==
    [k \in 1..(Len(Subreddits) * Len(Probes)) |->
        <<Subreddits[((k - 1) \div Len(Probes)) + 1], Probes[((k - 1) % Len(Probes)) + 1]>>]

\* C20: forums are processed in list order and probes in list order within a
\* forum; a probe that ends is followed by the next probe or the next forum's
\* first; a run that ends with neither budget expiry nor error has searched every
\* (forum, probe) pair exactly once, in that order
C20_ProbesInListOrder ==
    /\ Len(searched) <= Len(AllPairs)
    /\ searched = SubSeq(AllPairs, 1, Len(searched))
    /\ pc \in {"cooldown", "retry", "iter", "item", "pace", "comments"}
            => (searched # <<>> /\ searched[Len(searched)] = <<Subreddits[si], Probes[pi]>>)
    /\ pc = "search" => Len(searched) = (si - 1) * Len(Probes) + pi - 1
    /\ (pc \in {"returned", "written"} /\ reason = "done") => searched = AllPairs

\* a run ended after the last probe of the last forum, with items of it counted
C20_Witness ==
    /\ pc = "returned"
    /\ reason = "done"
    /\ Len(searched) = 4
    /\ searched[1] = <<"VeteransBenefits", "va">>
    /\ searched[4] = <<"Veterans", "claim">>
    /\ uni_per_sub["Veterans"] # <<>>
    /\ yielded = MaxItems

\* -------------------------------------------------- whole contributions

\* C21: whenever harvest has returned its tables, on budget expiry or on normal
\* completion, the contribution of every counted item is whole: the unigram table
\* and the bigram table of each forum account for the same counted posts and
\* comments, so no returned state holds an item's unigrams without its bigrams
C21_ContributionsWhole == pc = "returned" => TablesExact

\* harvest completed with the post "The claim" / "denied 21-526" and a comment
\* counted for a forum: its unigrams and its bigrams are in the tables
C21_Witness ==
    /\ pc = "returned"
    /\ reason = "done"
    /\ \E sub \in SubNames :
        /\ posts_counted[sub][2] > 0
        /\ bodies_counted[sub][1] > 0
        /\ KeyCount(uni_per_sub[sub], <<"d","e","n","i","e","d">>) > 0
        /\ KeyCount(bi_per_sub[sub], << <<"d","e","n","i","e","d"," ","2","1">> >>) > 0

\* ------------------------------------------------------ one forum's tables

\* the forums other than the one harvest is processing
OtherSubs == SubNames \ {Subreddits[si]}

\* C22: a step that processes an item (a post, or the comments of a post)
\* retrieved for the forum sub changes the tables of sub only: the unigram and
\* bigram tables of every other forum are as they were
C22_OnlyOwnForumTables ==
    [][(pc \in {"item", "comments"} /\ pc' \in {"pace", "iter"})
        => \A other \in OtherSubs :
            /\ uni_per_sub'[other] = uni_per_sub[other]
            /\ bi_per_sub'[other] = bi_per_sub[other]]_vars

\* a post was counted for the second forum while the first forum's tables held
\* other keys: the two forums' tables differ
C22_Witness ==
    /\ pc = "pace"
    /\ si = 2
    /\ cur = 2
    /\ KeyCount(uni_per_sub[Subreddits[1]], <<"f","o","r","m">>) > 0
    /\ KeyCount(uni_per_sub[Subreddits[2]], <<"f","o","r","m">>) = 0
    /\ KeyCount(uni_per_sub[Subreddits[2]], <<"d","e","n","i","e","d">>) > 0
    /\ KeyCount(uni_per_sub[Subreddits[1]], <<"d","e","n","i","e","d">>) = 0

\* ------------------------------------------------------ the pause counter

\* with sleep_every <= 0 the pause is due at no value of the counter
NeverDueWithoutPeriod ==
    \A every \in -2..0 : \A n \in 0..(MaxItems + 1) : ~PeriodicDueAt(every, n)

\* C23: requests_made grows by one with every counted post and with nothing else
\* (no search, retry or comment fetch), and no probe or forum resets it while
\* harvest runs; the sleep_seconds pause is taken exactly in the pacing of a post
\* that made the counter a multiple of sleep_every > 0; with sleep_every <= 0 no
\* counter value makes a pause due
C23_PauseCounter ==
    /\ [](Running => requests_made = TotalCounted)
    /\ [][/\ Running' =>
                requests_made' =
                    requests_made + (IF pc = "item" /\ pc' = "pace" THEN 1 ELSE 0)
          /\ periodic_pauses' \in {periodic_pauses, periodic_pauses + 1}
          /\ periodic_pauses' = periodic_pauses + 1
                <=> /\ pc = "pace"
                    /\ pc' # "pace"
                    /\ sleep_every > 0
                    /\ requests_made % sleep_every = 0
          /\ sleep_every <= 0 => periodic_pauses' = periodic_pauses]_vars
    /\ []NeverDueWithoutPeriod

\* in the second forum, after a search with a retry and a comment fetch, the
\* third post of the run is counted: the one pause was taken at the second
C23_Witness ==
    /\ pc = "iter"
    /\ si = 2
    /\ sleep_every = 2
    /\ requests_made = 3
    /\ periodic_pauses = 1
    /\ remote_requests > requests_made + 1

\* ------------------------------------------------ errors of the result stream

\* C24: an error raised while the result stream of a probe is iterated, a
\* rate-limit rejection included, gets no cooldown and no retry: no request
\* follows it, it leaves harvest, the tables accumulated so far are not returned,
\* and no file is written
C24_StreamErrorPropagates ==
    [][/\ (pc = "iter" /\ reason' \in Errors)
            => /\ pc' = "raised_stream"
               /\ UNCHANGED <<calls, cooldowns, remote_requests, now>>
               /\ \A sub \in SubNames :
                    uni_per_sub'[sub] = <<>> /\ bi_per_sub'[sub] = <<>>
       /\ pc = "raised_stream" => UNCHANGED <<pc, tables, output, effects>>]_vars

\* a rate-limit rejection met in the stream after a post was counted and paced:
\* the search was called once, without cooldown, and the tables are gone
C24_Witness ==
    /\ pc = "raised_stream"
    /\ reason = "TooManyRequests"
    /\ post_pauses > 0
    /\ calls = 1
    /\ cooldowns = 0
    /\ \A sub \in SubNames : uni_per_sub[sub] = <<>> /\ bi_per_sub[sub] = <<>>
====
